---- MODULE Spec2Model ----
(***************************************************************************)
(* A model of the CxxWString binding (src/src/cxx_wstring.rs) and of the   *)
(* wide-character width table (src/src/c_wchar_t.rs).                      *)
(*                                                                         *)
(* Memory that crosses the foreign-call boundary is modelled as bytes: a   *)
(* Rust `char` is a 4-byte Unicode scalar value, a `wchar_t` is the u32 of *)
(* line 21, and the pointer casts of the source reinterpret the same bytes *)
(* at the width of the pointee type.                                       *)
(***************************************************************************)
EXTENDS Integers, Sequences, FiniteSets, TLC

\* ------------------------------------------------------------------ bounds

\* longest character slice handed to init / push / create in one call
MaxSlice == 2
\* longest string a handle holds in the single-handle specification
MaxLen == 3
\* longest string a handle holds in the three-handle comparison specification
MaxCmpLen == 2
\* most init calls made on one stack cell
MaxInits == 2
\* usize is modelled UsizeBits wide, so that len + additional can overflow
UsizeBits == 4

\* ------------------------------------------------------- values and slices

\* NUL, 'a', U+00E9, U+20AC, U+10FFFF: one scalar value per UTF-8 length,
\* and the zero unit
CharSample == {0, 97, 233, 8364, 1114111}

\* the characters of the comparison specification
CmpSample == {0, 97, 1114111}

SeqsUpTo(S, n) == UNION {[1..k -> S] : k \in 0..n}

Min(a, b) == IF a < b THEN a ELSE b

\* size_of::<wchar_t>(): `type wchar_t = u32`
SizeofWcharT == 4
\* size_of::<char>()
SizeofChar == 4

\* The in-memory bytes of one char (little endian).
CharBytes(c) ==
    << c % 256, (c \div 256) % 256, (c \div 65536) % 256, (c \div 16777216) % 256 >>

RECURSIVE SliceBytes(_)
\* `chars.as_ptr()`: the bytes the pointer to a [char] slice points at.
SliceBytes(chars) ==
    IF chars = << >> THEN << >>
    ELSE CharBytes(Head(chars)) \o SliceBytes(Tail(chars))

RECURSIVE LeValue(_)
\* The integer that a little-endian group of bytes holds.
LeValue(bs) == IF bs = << >> THEN 0 ELSE Head(bs) + 256 * LeValue(Tail(bs))

\* slice::from_raw_parts(data as *const T, len) with size_of::<T>() = w
from_raw_parts(data, len, w) ==
    [i \in 1..len |-> LeValue(SubSeq(data, (i - 1) * w + 1, i * w))]

\* ------------------------------------------------- foreign-call boundary

\* No string: the content of storage that holds no live foreign string.
NoString == [data |-> << >>, length |-> 0]

\* cxxbridge1$cxx_wstring$init / $new: a string of `len` units read at `ptr`
wstring_init(ptr, len) ==
    [data |-> SubSeq(ptr, 1, len * SizeofWcharT), length |-> len]

\* cxxbridge1$cxx_wstring$data
wstring_data(this) == this.data

\* cxxbridge1$cxx_wstring$length
wstring_length(this) == this.length

\* cxxbridge1$cxx_wstring$clear
wstring_clear(this) == NoString

\* cxxbridge1$cxx_wstring$push: `len` units read at `ptr`, appended
wstring_push(this, ptr, len) ==
    [data |-> this.data \o SubSeq(ptr, 1, len * SizeofWcharT),
     length |-> this.length + len]

\* ------------------------------------------------------ CxxWString reads

as_ptr(this) == wstring_data(this)

len(this) == wstring_length(this)

is_empty(this) == len(this) = 0

as_wchars(this) == from_raw_parts(as_ptr(this), len(this), SizeofWcharT)

as_chars(this) == from_raw_parts(as_ptr(this), len(this), SizeofChar)

\* --------------------------------------------------------------- UTF-8

\* The UTF-8 bytes of one scalar value: what a `&str` holds for it.
Utf8Encode1(c) ==
    IF c < 128 THEN << c >>
    ELSE IF c < 2048 THEN << 192 + (c \div 64), 128 + (c % 64) >>
    ELSE IF c < 65536
        THEN << 224 + (c \div 4096), 128 + ((c \div 64) % 64), 128 + (c % 64) >>
    ELSE << 240 + (c \div 262144), 128 + ((c \div 4096) % 64),
            128 + ((c \div 64) % 64), 128 + (c % 64) >>

RECURSIVE Utf8Encode(_)
\* A `&str`: the UTF-8 bytes of a text with the given codepoints.
Utf8Encode(cs) ==
    IF cs = << >> THEN << >> ELSE Utf8Encode1(Head(cs)) \o Utf8Encode(Tail(cs))

RECURSIVE str_chars(_)
\* `s.chars().collect::<Vec<_>>()`: the scalar values decoded from UTF-8
str_chars(s) ==
    IF s = << >> THEN << >>
    ELSE LET b == s[1] IN
         IF b < 128 THEN << b >> \o str_chars(SubSeq(s, 2, Len(s)))
         ELSE IF b < 224
             THEN << (b - 192) * 64 + (s[2] - 128) >> \o str_chars(SubSeq(s, 3, Len(s)))
         ELSE IF b < 240
             THEN << (b - 224) * 4096 + (s[2] - 128) * 64 + (s[3] - 128) >>
                  \o str_chars(SubSeq(s, 4, Len(s)))
         ELSE << (b - 240) * 262144 + (s[2] - 128) * 4096 + (s[3] - 128) * 64
                 + (s[4] - 128) >> \o str_chars(SubSeq(s, 5, Len(s)))

\* --------------------------------------------------- CxxWString mutators

\* cxxbridge1$cxx_wstring$reserve_total: capacity is internal to the foreign
\* string and no accessor of the binding reads it back
wstring_reserve_total(this, new_cap) == this

\* usize::MAX at the modelled width
UsizeMax == 2 ^ UsizeBits - 1

\* usize::checked_add: << >> is None, << n >> is Some(n)
checked_add(a, b) == IF a + b > UsizeMax THEN << >> ELSE << a + b >>

\* CxxWString::reserve with the sum wrapped at the usize width
CxxWString_reserve_wrapping(this, additional) ==
    LET new_cap == (len(this) + additional) % (UsizeMax + 1) IN
    [outcome |-> "ok", passed |-> << new_cap >>,
     this |-> wstring_reserve_total(this, new_cap)]

\* CxxWString::reserve: the outcome, the argument passed to reserve_total
\* (none when it is not called) and the string afterwards
CxxWString_reserve(this, additional) ==
    LET new_cap == checked_add(len(this), additional) IN
    IF new_cap = << >>
        THEN [outcome |-> "panic", passed |-> << >>, this |-> this]
        ELSE [outcome |-> "ok", passed |-> new_cap,
              this |-> wstring_reserve_total(this, new_cap[1])]

\* CxxWString::push_chars
CxxWString_push_chars(this, chars) ==
    wstring_push(this, SliceBytes(chars), Len(chars))

\* CxxWString::push_str pushing the text's UTF-8 bytes, one unit per byte
CxxWString_push_str_bytes(this, s) ==
    LET chars == s IN CxxWString_push_chars(this, chars)

\* CxxWString::push_str
CxxWString_push_str(this, s) ==
    LET chars == str_chars(s) IN CxxWString_push_chars(this, chars)

\* CxxWString::clear
CxxWString_clear(this) == wstring_clear(this)

\* CxxWString::create: the string the returned UniquePtr owns
CxxWString_create(chars) == wstring_init(SliceBytes(chars), Len(chars))

\* ------------------------------------------- equality, ordering, hashing

\* <[wchar_t] as PartialEq>::eq
slice_eq(a, b) == Len(a) = Len(b) /\ \A i \in 1..Len(a) : a[i] = b[i]

\* equality that compares the lengths alone
CxxWString_eq_len_only(this, other) == len(this) = len(other)

\* equality that stops at the end of the shorter string
CxxWString_eq_prefix(this, other) ==
    \A i \in 1..Min(len(this), len(other)) : as_wchars(this)[i] = as_wchars(other)[i]

\* impl PartialEq for CxxWString
CxxWString_eq(this, other) == slice_eq(as_wchars(this), as_wchars(other))

RECURSIVE slice_cmp_from(_, _, _)
\* <[char] as Ord>::cmp: the first unequal pair decides, then the lengths
slice_cmp_from(a, b, i) ==
    IF i > Min(Len(a), Len(b))
        THEN IF Len(a) < Len(b) THEN "Less"
             ELSE IF Len(a) > Len(b) THEN "Greater" ELSE "Equal"
    ELSE IF a[i] < b[i] THEN "Less"
    ELSE IF a[i] > b[i] THEN "Greater"
    ELSE slice_cmp_from(a, b, i + 1)

\* ordering that compares the lengths before the units
CxxWString_cmp_len_first(this, other) ==
    IF len(this) < len(other) THEN "Less"
    ELSE IF len(this) > len(other) THEN "Greater"
    ELSE slice_cmp_from(as_chars(this), as_chars(other), 1)

\* impl Ord for CxxWString
CxxWString_cmp(this, other) == slice_cmp_from(as_chars(this), as_chars(other), 1)

\* impl PartialOrd for CxxWString: << o >> is Some(o)
CxxWString_partial_cmp(this, other) ==
    << slice_cmp_from(as_chars(this), as_chars(other), 1) >>

\* impl Hash for CxxWString: what the hasher has been fed, `state` being what
\* it was fed before (a slice writes its length, then each element)
CxxWString_hash(this, state) ==
    state \o << Len(as_chars(this)) >> \o as_chars(this)

\* --------------------------------------------------- the width resolver

OsSample ==
    {"linux", "android", "l4re", "freebsd", "netbsd", "openbsd", "vxworks",
     "fuchsia", "macos", "windows"}

ArchSample ==
    {"aarch64", "arm", "hexagon", "powerpc", "powerpc64", "s390x", "riscv64",
     "riscv32", "x86_64", "x86"}

\* the #[cfg(any(...))] on the import from `unsigned`
cfg_unsigned(os, arch) ==
    \/ os = "linux" /\ arch \in {"aarch64", "arm", "hexagon", "powerpc",
                                 "powerpc64", "s390x", "riscv64", "riscv32"}
    \/ os = "android" /\ arch \in {"aarch64", "arm"}
    \/ os = "l4re" /\ arch = "x86_64"
    \/ os = "freebsd" /\ arch \in {"aarch64", "arm", "powerpc", "powerpc64",
                                   "riscv64"}
    \/ os = "netbsd" /\ arch \in {"aarch64", "arm", "powerpc"}
    \/ os = "openbsd" /\ arch = "aarch64"
    \/ os = "vxworks" /\ arch \in {"aarch64", "arm", "powerpc64", "powerpc"}
    \/ os = "fuchsia" /\ arch = "aarch64"

\* mod unsigned / mod signed: the names each defines
mod_unsigned == [c_wchar_t |-> "u32"]

mod_signed == [c_wchar_t |-> "i32"]

\* mod c_wchar_t_definition: what the name c_wchar_t resolves to in it. The
\* cfg'd import names `c_char`; `signed::*` is imported on every target. A
\* named import of a name its module does not define fails the build; a
\* named import shadows a glob import.
c_wchar_t_definition(os, arch) ==
    LET named == IF cfg_unsigned(os, arch) THEN {"c_char"} ELSE {} IN
    IF \E n \in named : n \notin DOMAIN mod_unsigned THEN "unresolved import"
    ELSE IF "c_wchar_t" \in named THEN mod_unsigned.c_wchar_t
    ELSE mod_signed.c_wchar_t

\* pub type c_wchar_t
c_wchar_t(os, arch) == c_wchar_t_definition(os, arch)

\* `type wchar_t = u32`: the unit type of the handle and the boundary calls
wchar_t == "u32"

\* ------------------------------------------------------------- variables

VARIABLES
    \* the stack cell
    scope,        \* "open" | "exited": the block that holds the cell
    exitKind,     \* how the block was left
    cell,         \* "none" | "live" | "dropped": the StackWString value
    space,        \* the cell's storage: its lifecycle state, the string in it
    calls,        \* the boundary init / destroy calls made on the storage
    arg,          \* the slice given to the latest init
    ub,           \* a boundary call was made outside its contract
    \* one handle under mutation
    h,            \* the foreign string behind the handle
    pushes,       \* the latest pushes in a row: units before, slice pushed
    lastOp,       \* the latest operation on the handle
    lastReserve,  \* the latest reserve: string before, argument, result
    \* three handles under comparison
    hs,
    \* the width resolver
    target,       \* the target the crate is built for
    build         \* the unit types the build resolved, once it is done

stackVars == << scope, exitKind, cell, space, calls, arg, ub >>
handleVars == << h, pushes, lastOp, lastReserve >>
cmpVars == << hs >>
widthVars == << target, build >>
vars == << stackVars, handleVars, cmpVars, widthVars >>

ExitKinds == {"normal", "early_return", "unwind"}

NoReserve == [before |-> NoString, additional |-> 0, result |-> << >>]

NotBuilt == [done |-> FALSE, c_wchar_t |-> "", wchar_t |-> ""]

\* Each specification leaves the other components as they are here.
StackIdle ==
    /\ scope = "open"
    /\ exitKind = "none"
    /\ cell = "none"
    /\ space = [state |-> "Uninitialized", str |-> NoString]
    /\ calls = << >>
    /\ arg = << >>
    /\ ub = FALSE

HandleIdle ==
    /\ h = NoString
    /\ pushes = << >>
    /\ lastOp = "none"
    /\ lastReserve = NoReserve

CmpIdle == hs = [i \in 1..3 |-> NoString]

WidthIdle ==
    /\ target = [os |-> "linux", arch |-> "x86_64"]
    /\ build = NotBuilt

\* ----------------------------------------------------- the stack cell

StackInit == StackIdle /\ HandleIdle /\ CmpIdle /\ WidthIdle

\* StackWString::new(): storage reserved, nothing constructed in it
StackWString_new ==
    /\ scope = "open"
    /\ cell = "none"
    /\ cell' = "live"
    /\ space' = [state |-> "Uninitialized", str |-> NoString]
    /\ UNCHANGED << scope, exitKind, calls, arg, ub >>

\* init that reads the value as a zero-terminated string
StackWString_init_cstr(value) ==
    LET zeros == {i \in 1..Len(value) : value[i] = 0}
        n == IF zeros = {} THEN Len(value)
             ELSE (CHOOSE i \in zeros : \A j \in zeros : i <= j) - 1 IN
    /\ scope = "open"
    /\ cell = "live"
    /\ Len(SelectSeq(calls, LAMBDA c : c.fn = "init")) < MaxInits
    /\ calls' = Append(calls, [fn |-> "init", on |-> space.state])
    /\ space' = [state |-> "Initialized",
                 str |-> wstring_init(SliceBytes(value), n)]
    /\ arg' = value
    /\ UNCHANGED << scope, exitKind, cell, ub >>

\* StackWString::init(&mut self, value): no check of the storage's state
StackWString_init(value) ==
    /\ scope = "open"
    /\ cell = "live"
    /\ Len(SelectSeq(calls, LAMBDA c : c.fn = "init")) < MaxInits
    /\ calls' = Append(calls, [fn |-> "init", on |-> space.state])
    /\ space' = [state |-> "Initialized",
                 str |-> wstring_init(SliceBytes(value), Len(value))]
    /\ arg' = value
    /\ UNCHANGED << scope, exitKind, cell, ub >>

\* a drop that leaves the storage as it is
StackWString_drop_nothing ==
    /\ cell' = "dropped"
    /\ UNCHANGED << calls, space, ub >>

\* impl Drop for StackWString: destroy, whatever the storage holds
StackWString_drop ==
    /\ calls' = Append(calls, [fn |-> "destroy", on |-> space.state])
    /\ space' = [state |-> "Destroyed", str |-> NoString]
    /\ ub' = (ub \/ space.state # "Initialized")
    /\ cell' = "dropped"

\* The block ends: its locals are dropped, on every way out.
ScopeExit(kind) ==
    /\ scope = "open"
    /\ scope' = "exited"
    /\ exitKind' = kind
    /\ IF cell = "live"
         THEN StackWString_drop
         ELSE UNCHANGED << cell, space, calls, ub >>
    /\ UNCHANGED arg

StackNext ==
    \/ StackWString_new /\ UNCHANGED << handleVars, cmpVars, widthVars >>
    \/ \E value \in SeqsUpTo(CharSample, MaxSlice) :
          StackWString_init(value) /\ UNCHANGED << handleVars, cmpVars, widthVars >>
    \/ \E kind \in ExitKinds :
          ScopeExit(kind) /\ UNCHANGED << handleVars, cmpVars, widthVars >>

SpecStack == StackInit /\ [][StackNext]_vars

\* ------------------------------------------------ one handle, mutated

\* A handle from CxxWString::create, nothing pushed yet.
HandleInit ==
    /\ \E chars \in SeqsUpTo(CharSample, MaxSlice) : h = CxxWString_create(chars)
    /\ pushes = << >>
    /\ lastOp = "create"
    /\ lastReserve = NoReserve
    /\ StackIdle /\ CmpIdle /\ WidthIdle

\* The pushes made in a row, the latest two kept.
Pushed(chars) ==
    LET entry == [before |-> as_wchars(h), slice |-> chars] IN
    IF Len(pushes) < 2 THEN Append(pushes, entry) ELSE << pushes[2], entry >>

PushChars(chars) ==
    /\ len(h) + Len(chars) <= MaxLen
    /\ h' = CxxWString_push_chars(h, chars)
    /\ pushes' = Pushed(chars)
    /\ lastOp' = "push_chars"
    /\ lastReserve' = NoReserve

\* `text` is the codepoints of the &str that is pushed.
PushStr(text) ==
    /\ len(h) + Len(text) <= MaxLen
    /\ h' = CxxWString_push_str(h, Utf8Encode(text))
    /\ pushes' = Pushed(text)
    /\ lastOp' = "push_str"
    /\ lastReserve' = NoReserve

Clear ==
    /\ h' = CxxWString_clear(h)
    /\ pushes' = << >>
    /\ lastOp' = "clear"
    /\ lastReserve' = NoReserve

Reserve(additional) ==
    LET r == CxxWString_reserve(h, additional) IN
    /\ h' = r.this
    /\ pushes' = << >>
    /\ lastOp' = "reserve"
    /\ lastReserve' = [before |-> h, additional |-> additional,
                       result |-> << [outcome |-> r.outcome, passed |-> r.passed] >>]

\* Arguments of reserve: small ones, and ones at the top of the usize range.
AdditionalSample == {0, 1, 2, UsizeMax - 2, UsizeMax - 1, UsizeMax}

HandleNext ==
    \/ \E chars \in SeqsUpTo(CharSample, MaxSlice) :
          PushChars(chars) /\ UNCHANGED << stackVars, cmpVars, widthVars >>
    \/ \E text \in SeqsUpTo(CharSample, MaxSlice) :
          PushStr(text) /\ UNCHANGED << stackVars, cmpVars, widthVars >>
    \/ Clear /\ UNCHANGED << stackVars, cmpVars, widthVars >>
    \/ \E additional \in AdditionalSample :
          Reserve(additional) /\ UNCHANGED << stackVars, cmpVars, widthVars >>

SpecHandle == HandleInit /\ [][HandleNext]_vars

\* ---------------------------------------------- three handles, compared

CmpInit ==
    /\ hs = [i \in 1..3 |-> CxxWString_create(<< >>)]
    /\ StackIdle /\ HandleIdle /\ WidthIdle

CmpPush(i, chars) ==
    /\ len(hs[i]) + Len(chars) <= MaxCmpLen
    /\ hs' = [hs EXCEPT ![i] = CxxWString_push_chars(@, chars)]

CmpClear(i) == hs' = [hs EXCEPT ![i] = CxxWString_clear(@)]

CmpNext ==
    \/ \E i \in 1..3, c \in CmpSample :
          CmpPush(i, << c >>) /\ UNCHANGED << stackVars, handleVars, widthVars >>
    \/ \E i \in 1..3 :
          CmpClear(i) /\ UNCHANGED << stackVars, handleVars, widthVars >>

SpecCmp == CmpInit /\ [][CmpNext]_vars

\* --------------------------------------------------- building for a target

WidthInit ==
    /\ target \in [os : OsSample, arch : ArchSample]
    /\ build = NotBuilt
    /\ StackIdle /\ HandleIdle /\ CmpIdle

\* The crate is compiled for the target: each unit type is resolved.
Compile ==
    /\ ~build.done
    /\ build' = [done |-> TRUE, c_wchar_t |-> c_wchar_t(target.os, target.arch),
                 wchar_t |-> wchar_t]
    /\ UNCHANGED target

WidthNext == Compile /\ UNCHANGED << stackVars, handleVars, cmpVars >>

SpecWidth == WidthInit /\ [][WidthNext]_vars

\* ------------------------------------------------------------- claims

InitCalls == SelectSeq(calls, LAMBDA c : c.fn = "init")

DestroyCalls == SelectSeq(calls, LAMBDA c : c.fn = "destroy")

\* C1: a cell that init has initialized has had destroy called on it exactly
\* once as soon as its scope has ended, whichever way the scope was left, and
\* not at all before.
C1_DestroyExactlyOnce ==
    Len(InitCalls) > 0 =>
        /\ scope = "open" => Len(DestroyCalls) = 0
        /\ \A kind \in ExitKinds :
               (scope = "exited" /\ exitKind = kind) => Len(DestroyCalls) = 1

C1_Witness ==
    /\ scope = "exited"
    /\ exitKind = "unwind"
    /\ Len(InitCalls) = 1
    /\ Len(DestroyCalls) = 1

\* C2: boundary init is never called on storage that already holds an
\* initialized string (no second init without a destroy in between).
C2_InitSingleUse ==
    \A i \in 1..Len(calls) :
        calls[i].fn = "init" => calls[i].on # "Initialized"

\* C3: boundary destroy is called only on storage in state Initialized; a
\* cell made by new and dropped without init has no destroy run on it.
C3_DestroyOnlyInitialized ==
    \A i \in 1..Len(calls) :
        calls[i].fn = "destroy" => calls[i].on = "Initialized"

C5_ReserveChecked ==
    lastOp = "reserve" =>
        LET r == lastReserve.result[1]
            total == len(lastReserve.before) + lastReserve.additional IN
        IF total > UsizeMax
            THEN r.outcome = "panic" /\ r.passed = << >> /\ h = lastReserve.before
            ELSE r.outcome = "ok" /\ r.passed = << total >>

C5_Witness ==
    /\ lastOp = "reserve"
    /\ len(lastReserve.before) = 2
    /\ lastReserve.additional = UsizeMax - 1
    /\ lastReserve.result[1].outcome = "panic"

\* C6: after two pushes in a row (push_chars, or push_str of a text with the
\* given codepoints) the units of the handle are the units before the first
\* push, then the first slice, then the second slice.
C6_PushAppends ==
    Len(pushes) = 2 =>
        as_wchars(h) = pushes[1].before \o pushes[1].slice \o pushes[2].slice

C6_Witness ==
    /\ Len(pushes) = 2
    /\ lastOp = "push_str"
    /\ Len(pushes[1].before) > 0
    /\ pushes[1].slice = << 0 >>
    /\ pushes[2].slice = << 8364 >>

\* C7: equality of handles is reflexive, symmetric and transitive, and two
\* handles are equal exactly when their unit sequences are the same.
C7_EqEquivalence ==
    \A i, j, k \in 1..3 :
        /\ CxxWString_eq(hs[i], hs[i])
        /\ CxxWString_eq(hs[i], hs[j]) => CxxWString_eq(hs[j], hs[i])
        /\ (CxxWString_eq(hs[i], hs[j]) /\ CxxWString_eq(hs[j], hs[k]))
               => CxxWString_eq(hs[i], hs[k])
        /\ CxxWString_eq(hs[i], hs[j]) <=> (as_wchars(hs[i]) = as_wchars(hs[j]))

C7_Witness ==
    /\ len(hs[1]) = 1
    /\ len(hs[2]) = 2
    /\ len(hs[3]) = 2
    /\ as_wchars(hs[2])[1] = as_wchars(hs[1])[1]
    /\ CxxWString_eq(hs[2], hs[3])
    /\ ~CxxWString_eq(hs[1], hs[2])

\* C8: two handles that are equal feed the hasher the same input.
C8_HashConsistent ==
    \A i, j \in 1..3 :
        CxxWString_eq(hs[i], hs[j]) =>
            CxxWString_hash(hs[i], << >>) = CxxWString_hash(hs[j], << >>)

C8_Witness ==
    /\ CxxWString_eq(hs[1], hs[2])
    /\ as_chars(hs[1]) = << 97, 1114111 >>
    /\ CxxWString_hash(hs[1], << >>) = << 2, 97, 1114111 >>

\* The lexicographic order of two sequences, stated by the first place at
\* which they differ.
LexOrder(a, b) ==
    LET differ == {p \in 1..Min(Len(a), Len(b)) : a[p] # b[p]} IN
    IF differ # {}
        THEN LET p == CHOOSE q \in differ : \A r \in differ : q <= r IN
             IF a[p] < b[p] THEN "Less" ELSE "Greater"
    ELSE IF Len(a) < Len(b) THEN "Less"
    ELSE IF Len(a) > Len(b) THEN "Greater"
    ELSE "Equal"

\* C9: cmp and partial_cmp give the lexicographic order of the as_chars
\* views, and give Equal exactly when the handles are equal.
C9_LexicographicOrder ==
    \A i, j \in 1..3 :
        /\ CxxWString_cmp(hs[i], hs[j]) = LexOrder(as_chars(hs[i]), as_chars(hs[j]))
        /\ CxxWString_partial_cmp(hs[i], hs[j]) = << CxxWString_cmp(hs[i], hs[j]) >>
        /\ (CxxWString_cmp(hs[i], hs[j]) = "Equal") <=> CxxWString_eq(hs[i], hs[j])

C9_Witness ==
    /\ as_chars(hs[1]) = << 0, 97 >>
    /\ as_chars(hs[2]) = << 97 >>
    /\ CxxWString_cmp(hs[1], hs[2]) = "Less"
    /\ CxxWString_cmp(hs[2], hs[1]) = "Greater"

\* C10: once the crate is built for a target, the resolver's unit is the
\* unsigned one on the targets of the table and the signed one elsewhere, and
\* the unit the handle and the boundary use is the resolver's.
C10_OneResolvedUnit ==
    build.done =>
        /\ build.c_wchar_t =
               IF cfg_unsigned(target.os, target.arch) THEN "u32" ELSE "i32"
        /\ build.wchar_t = build.c_wchar_t

====
